---- MODULE Spec2Model ----
(***************************************************************************)
(* Job orchestration engine of eccomi-video-automation (src/main.py):      *)
(* the in-memory job table JOBS, the submit endpoints, the two background  *)
(* pollers (D-ID and HeyGen), the notifier send_email and the admin        *)
(* resend endpoint.                                                        *)
(*                                                                         *)
(* Python values: None is the string "None"; a dict is a function from     *)
(* key strings to values; truthiness is the operator Truthy.               *)
(***************************************************************************)
EXTENDS Integers, Sequences, FiniteSets, TLC

\* ------------------------------------------------------------------ bounds
\* number of render jobs the providers accept in one behaviour
MaxJobs == 1
\* number of admin resend requests in one behaviour
MaxResends == 1
\* number of line items of one Shopify order
MaxLineItems == 1
\* largest reading of the wall clock
MaxClock == 1
\* ticks of the clock in one second, scaled down from 1000000 microseconds
TicksPerSecond == 2
\* number of job ids, and of upserts, of a client that uses the table alone
MaxStoreIds == 2
MaxUpserts == 3
\* max_wait_sec of the two pollers, scaled down from 600 and 1200 seconds
did_max_wait_sec == 5
heygen_max_wait_sec == 7

\* ------------------------------------------------------- program constants
did_every_sec == 5
heygen_every_sec == 7

\* ----------------------------------------------------------- python values
None == "None"

Truthy(v) == v \notin {None, ""}

\* x or y
Or(x, y) == IF Truthy(x) THEN x ELSE y

EmptyDict == [k \in {} |-> None]

\* d.get(k)
Get(d, k) == IF k \in DOMAIN d THEN d[k] ELSE None

\* str.lower() on the status words the providers use
Lower(s) ==
  CASE s = "COMPLETED" -> "completed"
    [] s = "Completed" -> "completed"
    [] s = "FAILED" -> "failed"
    [] OTHER -> s

\* --------------------------------------------------------------- input sets
IdSeq == <<"id1", "id2", "id3", "id4">>
JobIds == {IdSeq[i] : i \in 1..MaxJobs}

URL == "https://x/v1.mp4"
Emails == {None, "a@x"}
Scripts == {None, "hello"}
AudioUrls == {None, "https://x/a.mp3"}
OrderNames == {"#1001"}
\* the Job bodies of POST /api/jobs/photo
Jobs == {j \in [image_url : {"https://x/p.jpg"}, script : Scripts,
                 audio_url : AudioUrls, to_email : Emails, order_name : OrderNames] :
           ~(Truthy(j.script) /\ Truthy(j.audio_url))}

\* the HeygenText and HeygenAudio bodies (script and audio_url are required str)
AvatarIds == {None, "av1"}
HeygenTexts == [script : {"hello"}, avatar_id : AvatarIds, voice_id : {None},
                to_email : Emails, order_name : OrderNames]
HeygenAudios == [audio_url : {"https://x/a.mp3"}, avatar_id : AvatarIds,
                 to_email : Emails, order_name : OrderNames]

\* the line items of a Shopify order, by their properties Tipo, Foto, Testo, Audio
LineItems ==
  {[tipo |-> "avatar", image_url |-> None, script |-> "hello", audio_url |-> None],
   [tipo |-> "avatar", image_url |-> None, script |-> None, audio_url |-> "https://x/a.mp3"],
   [tipo |-> "avatar", image_url |-> None, script |-> None, audio_url |-> None],
   [tipo |-> "foto", image_url |-> "https://x/p.jpg", script |-> "hello", audio_url |-> None],
   [tipo |-> "foto", image_url |-> "https://x/p.jpg", script |-> None, audio_url |-> None],
   [tipo |-> "foto", image_url |-> None, script |-> "hello", audio_url |-> None]}
\* the customer email of an order: (customer.email or email or "")
OrderEmails == {"", "a@x"}

\* what one HTTP exchange with a provider can end as
NetOutcomes == {"ok", "unreachable", "http401"}

\* the provider's answers to a submission: an id, no id, or an error
ProviderReplies == {[net |-> "ok", hasId |-> TRUE], [net |-> "ok", hasId |-> FALSE],
                    [net |-> "unreachable", hasId |-> FALSE],
                    [net |-> "http401", hasId |-> FALSE]}

\* status words of the D-ID talks API, and None when the field is missing
DidNative == {None, "started", "done", "error", "failed"}
\* status words of the HeyGen video status API
HeygenNative == {None, "processing", "COMPLETED", "done", "succeeded",
                 "failed", "error", "canceled"}
ResultUrls == {None, URL}

VARIABLES
  env,      \* the environment: which keys are set, and the mail service
  JOBS,     \* the job table: job id -> record, NoJob when the key is absent
  clock,    \* datetime.utcnow()
  nextId,   \* index of the next id a provider assigns
  poller,   \* per job id: the background task poll_and_notify_* and its locals
  sent,     \* per job id: the calls of send_email made for it, in order
  resend,   \* the admin_resend_email request in progress
  journal,  \* the calls a client under examination has made, in order
  JOBS_LOCK, \* the thread that holds the Lock of the table, None when free
  thread    \* per thread under examination: its position and its locals

\* the state of the engine, and the state with the client's journal
engine == <<env, JOBS, clock, nextId, poller, sent, resend>>
\* the lock and the threads examined at the grain of its acquire and release
locking == <<JOBS_LOCK, thread>>
vars == <<env, JOBS, clock, nextId, poller, sent, resend, journal, locking>>

NoJob == [absent |-> TRUE]
\* the threads examined at the grain of the lock: two pollers and a request
\* of the admin API; NoThread where they are not examined
Pollers == {"p1", "p2"}
Threads == Pollers \cup {"admin"}
NoThread == [pc |-> "none"]
\* the background task of an id: none, or over and its locals gone
NoPoller == [pc |-> "none"]
\* (a return that is missing: the locals p go on to the sleep of the loop)
ReturnedMissing(p, exit) ==
  [p EXCEPT !.waited = @ + (IF p.provider = "d-id" THEN did_every_sec
                            ELSE heygen_every_sec)]
\* the return statements of the pollers, p being the locals given up
Returned(p, exit) == [pc |-> "returned", exit |-> exit]
Raised(code) == [pc |-> "raised", exc |-> code]
\* (a sleep after which waited is not advanced)
SleptForgot(p, every_sec) == p
\* time.sleep(every_sec); waited += every_sec
Slept(p, every_sec) == [p EXCEPT !.waited = @ + every_sec]

\* ------------------------------------------------------------ the job table
\* The clock counts the ticks of datetime.utcnow() since a whole second;
\* TicksPerSecond stands for the 1000000 microseconds of a second.
\* datetime.isoformat() + "Z", from the seconds on (the text before them is
\* the same for all readings): the fraction is left out when it is zero. A str
\* is the sequence of its characters.
Digit(n) == <<"0", "1", "2", "3", "4", "5", "6", "7", "8", "9">>[n + 1]
isoformat(t) ==
  LET second == t \div TicksPerSecond
      microsecond == t % TicksPerSecond
  IN IF microsecond = 0 THEN <<Digit(second), "Z">>
     ELSE <<Digit(second), ".", Digit(microsecond), "Z">>

\* (an upsert that replaces the record by data)
jobs_upsert_replace(J, job_id, data, t) ==
  IF ~Truthy(job_id) THEN J
  ELSE LET now == isoformat(t)
       IN [J EXCEPT ![job_id] =
             ("updated_at" :> now) @@ data @@ ("created_at" :> now)]

\* (an upsert without the test of job_id)
jobs_upsert_unguarded(J, job_id, data, t) ==
  LET now == isoformat(t)
      base == IF J[job_id] = NoJob THEN EmptyDict ELSE J[job_id]
      merged == data @@ base
      withCreated == IF "created_at" \in DOMAIN merged THEN merged
                     ELSE merged @@ ("created_at" :> now)
  IN [J EXCEPT ![job_id] = ("updated_at" :> now) @@ withCreated]

\* (an upsert that stamps created_at anew on every call)
jobs_upsert_restamp(J, job_id, data, t) ==
  IF ~Truthy(job_id) THEN J
  ELSE LET now == isoformat(t)
           base == IF J[job_id] = NoJob THEN EmptyDict ELSE J[job_id]
       IN [J EXCEPT ![job_id] =
             ("updated_at" :> now) @@ ("created_at" :> now) @@ data @@ base]

\* _jobs_upsert: merge data into the record of job_id, under JOBS_LOCK; t is
\* the reading of the clock
jobs_upsert(J, job_id, data, t) ==
  IF ~Truthy(job_id) THEN J
  ELSE LET now == isoformat(t)
           base == IF J[job_id] = NoJob THEN EmptyDict ELSE J[job_id]
           merged == data @@ base
           withCreated == IF "created_at" \in DOMAIN merged THEN merged
                          ELSE merged @@ ("created_at" :> now)
       IN [J EXCEPT ![job_id] = ("updated_at" :> now) @@ withCreated]

\* JOBS.get(job_id): the live dict of the job; the falsy EmptyDict stands for None
jobs_get(J, job_id) ==
  IF job_id \in DOMAIN J /\ J[job_id] # NoJob THEN J[job_id] ELSE EmptyDict

\* the order of str: character by character, by code point
Ord(c) ==
  CASE c = "." -> 46
    [] c = "Z" -> 90
    [] OTHER -> 48 + (CHOOSE n \in 0..9 : Digit(n) = c)
RECURSIVE StrLess(_, _)
StrLess(a, b) ==
  IF b = <<>> THEN FALSE
  ELSE IF a = <<>> THEN TRUE
  ELSE IF Ord(Head(a)) # Ord(Head(b)) THEN Ord(Head(a)) < Ord(Head(b))
  ELSE StrLess(Tail(a), Tail(b))

\* _jobs_list: sorted(JOBS.values(), key=updated_at, reverse=True). The dicts
\* of the list are the dicts of the table, named here by their keys. Records
\* with equal keys keep the order of the table, which the model does not
\* record: every order of them is a possible list.
jobs_list(J) ==
  LET ids == {id \in DOMAIN J : J[id] # NoJob}
      key(id) == IF "updated_at" \in DOMAIN J[id] THEN J[id]["updated_at"] ELSE <<>>
  IN {l \in [1..Cardinality(ids) -> ids] :
        /\ \A i, j \in DOMAIN l : i # j => l[i] # l[j]
        /\ \A i, j \in DOMAIN l : i < j => ~StrLess(key(l[i]), key(l[j]))}

\* ------------------------------------------------------------- the notifier
\* send_email: skipped without RESEND_API_KEY; an exception of the mail
\* service is caught and printed; it returns None on every path. S is the log
\* of the calls, per job.
send_email(S, job_id, to_email, subject, url) ==
  [S EXCEPT ![job_id] = Append(@,
     [to |-> to_email, subject |-> subject, url |-> url,
      outcome |-> IF ~env.RESEND_KEY THEN "skipped"
                  ELSE IF env.MAIL_SERVICE_UP THEN "sent" ELSE "error"])]

\* (an except clause that raises the exception again)
send_email_reraise(e) == e
\* the except clause of send_email: the exception e is printed, not raised
send_email_except(e) == [raised |-> FALSE, value |-> None]

\* what a call of send_email ends as for its caller
send_email_call(to_email) ==
  IF ~env.RESEND_KEY THEN [raised |-> FALSE, value |-> None]
  ELSE IF env.MAIL_SERVICE_UP THEN [raised |-> FALSE, value |-> None]
  ELSE send_email_except([raised |-> TRUE, status_code |-> "mail",
                          detail |-> "resend.Emails.send"])

\* the "if to_email: send_email(...)" of the pollers
Notify(job_id, to_email, subject, url) ==
  IF Truthy(to_email)
  THEN sent' = send_email(sent, job_id, to_email, subject, url)
  ELSE sent' = sent

\* ------------------------------------------------------ results of a call
Return(v) == [raised |-> FALSE, value |-> v]
\* raise HTTPException(status_code, detail)
Raise(code, detail) == [raised |-> TRUE, status_code |-> code, detail |-> detail]

\* the pollers' "if to_email: send_email(...)" followed by return: the task p
\* ends with the return, or with what send_email raised
Notified(p, to_email, exit) ==
  IF Truthy(to_email) /\ send_email_call(to_email).raised
  THEN Raised(send_email_call(to_email).status_code)
  ELSE Returned(p, exit)

\* --------------------------------------------------------------------- D-ID
DefaultScript == "Ciao! Il tuo video e' pronto."

\* did_headers
did_headers == IF ~env.DID_KEY THEN Raise("500", "D_ID_API_KEY mancante")
               ELSE Return("Basic")

\* make_did_payload: what is sent to the provider for a Job
make_did_payload(job) ==
  IF Truthy(job.audio_url)
  THEN [source_url |-> job.image_url, audio_url |-> job.audio_url]
  ELSE [source_url |-> job.image_url, script |-> Or(job.script, DefaultScript)]

\* did_create_talk: net is how the HTTP exchange ends, talk the provider's json
did_create_talk(job, net, talk) ==
  IF did_headers.raised THEN did_headers
  ELSE IF net = "unreachable" THEN Raise("502", "D-ID non raggiungibile")
  ELSE IF net # "ok" THEN Raise("401", "D-ID create error")
  ELSE Return(talk)

\* did_status
did_status(talk_id, net, json) ==
  IF did_headers.raised THEN did_headers
  ELSE IF net = "unreachable" THEN Raise("502", "D-ID non raggiungibile")
  ELSE IF net # "ok" THEN Raise("401", "D-ID status error")
  ELSE Return(json)

\* a background task added with bg.add_task, before it starts
Scheduled(provider, job) ==
  [pc |-> "scheduled", provider |-> provider, waited |-> 0, calls |-> 0,
   job |-> job]

\* create_job_photo, for the body job and the provider's answer reply
create_job_photo(job, reply) ==
  LET talk == [id |-> IF reply.hasId THEN IdSeq[nextId] ELSE None]
      r == did_create_talk(job, reply.net, talk)
      talk_id == Get(r.value, "id")
  IN IF r.raised \/ ~Truthy(talk_id)
     THEN \* the HTTPException is the reply, or a reply without talk_id
          UNCHANGED engine
     ELSE /\ JOBS' = jobs_upsert(JOBS, talk_id,
                       [id |-> talk_id, provider |-> "d-id", status |-> "submitted",
                        to_email |-> job.to_email, order_name |-> job.order_name,
                        raw |-> <<"talk", talk_id>>], clock)
          /\ poller' = [poller EXCEPT ![talk_id] = Scheduled("d-id", job)]
          /\ nextId' = nextId + 1
          /\ UNCHANGED <<env, clock, sent, resend>>

\* POST /api/jobs/photo and /api/jobs
CreateJobPhoto ==
  /\ nextId <= MaxJobs
  /\ \E reply \in ProviderReplies, job \in Jobs : create_job_photo(job, reply)
  /\ UNCHANGED <<journal, locking>>

\* poll_and_notify_did, up to the loop: the first upsert and waited = 0
PollDidStart(id) ==
  /\ poller[id].pc = "scheduled"
  /\ poller[id].provider = "d-id"
  /\ JOBS' = jobs_upsert(JOBS, id,
               [id |-> id, provider |-> "d-id", status |-> "queued",
                to_email |-> poller[id].job.to_email,
                order_name |-> poller[id].job.order_name], clock)
  /\ poller' = [poller EXCEPT ![id].pc = "loop", ![id].waited = 0]
  /\ UNCHANGED <<journal, locking, env, clock, nextId, sent, resend>>

\* the status of a talk is terminal for the D-ID poller
did_success(st, video_url) == st = "done" /\ Truthy(video_url)
did_failure(st) == st \in {"error", "failed"}

\* one iteration of the while loop of poll_and_notify_did
PollDid(id) ==
  /\ poller[id].pc = "loop"
  /\ poller[id].provider = "d-id"
  /\ poller[id].waited <= did_max_wait_sec
  /\ \E net \in NetOutcomes :
       IF did_status(id, net, EmptyDict).raised
       THEN \* the HTTPException leaves the function: the task ends
            /\ poller' = [poller EXCEPT ![id] =
                            Raised(did_status(id, net, EmptyDict).status_code)]
            /\ UNCHANGED <<JOBS, sent>>
       ELSE \E native \in DidNative, url \in ResultUrls :
              LET job == poller[id].job
                  p == [poller[id] EXCEPT !.calls = @ + 1]
                  s == did_status(id, net, [status |-> native, result_url |-> url]).value
                  st == Get(s, "status")
                  video_url == Get(s, "result_url")
              IN /\ JOBS' = jobs_upsert(JOBS, id,
                              [status |-> Or(st, ""), video_url |-> video_url,
                               raw |-> <<"status", st, video_url>>], clock)
                 /\ IF did_success(st, video_url)
                    THEN /\ Notify(id, job.to_email, "pronto", video_url)
                         /\ poller' = [poller EXCEPT ![id] =
                                         Notified(p, job.to_email, "ready")]
                    ELSE IF did_failure(st)
                    THEN /\ Notify(id, job.to_email, "problema", None)
                         /\ poller' = [poller EXCEPT ![id] =
                                         Notified(p, job.to_email, "problem")]
                    ELSE /\ sent' = sent
                         /\ poller' = [poller EXCEPT ![id] = Slept(p, did_every_sec)]
  /\ UNCHANGED <<journal, locking, env, clock, nextId, resend>>

\* the loop of poll_and_notify_did ends because waited > max_wait_sec
PollDidTimeout(id) ==
  /\ poller[id].pc = "loop"
  /\ poller[id].provider = "d-id"
  /\ poller[id].waited > did_max_wait_sec
  /\ Notify(id, poller[id].job.to_email, "in completamento", None)
  /\ poller' = [poller EXCEPT ![id] =
                  Notified(poller[id], poller[id].job.to_email, "timeout")]
  /\ UNCHANGED <<journal, locking, env, JOBS, clock, nextId, resend>>

\* ------------------------------------------------------------------- HeyGen
\* _heygen_headers
heygen_headers == IF ~env.HEYGEN_KEY THEN Raise("500", "HEYGEN_API_KEY mancante")
                  ELSE Return("X-Api-Key")

\* (an _ensure_avatar without the test of aid)
ensure_avatar_unchecked(aid) ==
  [raised |-> FALSE,
   value |-> Or(aid, IF env.HEYGEN_AVATAR THEN "env-avatar" ELSE "")]

\* _ensure_avatar
ensure_avatar(aid) ==
  LET a == Or(aid, IF env.HEYGEN_AVATAR THEN "env-avatar" ELSE "")
  IN IF ~Truthy(a) THEN Raise("500", "HEYGEN_AVATAR_ID mancante") ELSE Return(a)

\* the part heygen_submit_text and heygen_submit_audio share, after the payload
heygen_generate(aid, net, data) ==
  IF aid.raised THEN aid
  ELSE IF heygen_headers.raised THEN heygen_headers
  ELSE IF net = "unreachable" THEN Raise("502", "HeyGen non raggiungibile")
  ELSE IF net # "ok" THEN Raise("401", "HeyGen v2 submit error")
  ELSE LET vid == Or(Get(data, "video_id"), Get(data, "id"))
       IN IF ~Truthy(vid) THEN Raise("502", "HeyGen v2: risposta senza video_id")
          ELSE Return(vid)

\* heygen_submit_text
heygen_submit_text(script, avatar_id, voice_id, net, data) ==
  heygen_generate(ensure_avatar(avatar_id), net, data)

\* heygen_submit_audio
heygen_submit_audio(audio_url, avatar_id, net, data) ==
  heygen_generate(ensure_avatar(avatar_id), net, data)

\* heygen_status: v2 first, v1 when v2 answers anything but 200
heygen_status(video_id, v2, v1, json) ==
  IF heygen_headers.raised THEN heygen_headers
  ELSE IF v2 = "unreachable" THEN Raise("502", "HeyGen non raggiungibile")
  ELSE IF v2 = "ok" THEN Return(json)
  ELSE IF v1 = "unreachable" THEN Raise("502", "HeyGen non raggiungibile (v1)")
  ELSE IF v1 = "ok" THEN Return(json)
  ELSE Raise("502", "HeyGen status error")

\* (a tail that adds the task and leaves the registration to it)
HeygenLaunchOnly(vid, body) ==
  /\ JOBS' = JOBS
  /\ poller' = IF Truthy(body.to_email)
               THEN [poller EXCEPT ![vid] =
                       Scheduled("heygen", [to_email |-> body.to_email,
                                            order_name |-> body.order_name])]
               ELSE poller
  /\ nextId' = nextId + 1
  /\ UNCHANGED <<env, clock, sent, resend>>

\* the endpoints' common tail: register the job, poll only with a recipient
HeygenRegister(vid, body) ==
  /\ JOBS' = jobs_upsert(JOBS, vid,
               [id |-> vid, provider |-> "heygen", status |-> "submitted",
                to_email |-> body.to_email, order_name |-> body.order_name], clock)
  /\ poller' = IF Truthy(body.to_email)
               THEN [poller EXCEPT ![vid] =
                       Scheduled("heygen", [to_email |-> body.to_email,
                                            order_name |-> body.order_name])]
               ELSE poller
  /\ nextId' = nextId + 1
  /\ UNCHANGED <<env, clock, sent, resend>>

\* the json of the provider's answer to video/generate, n the next free id
GenerateData(n, hasId) == [video_id |-> IF hasId THEN IdSeq[n] ELSE None]

\* heygen_submit_endpoint, for the body and the provider's answer reply
heygen_submit_endpoint(body, reply) ==
  LET r == heygen_submit_text(body.script, body.avatar_id, body.voice_id,
                              reply.net, GenerateData(nextId, reply.hasId))
  IN IF r.raised THEN UNCHANGED engine ELSE HeygenRegister(r.value, body)

\* POST /api/heygen/submit
HeygenSubmitEndpoint ==
  /\ nextId <= MaxJobs
  /\ \E body \in HeygenTexts, reply \in ProviderReplies :
       heygen_submit_endpoint(body, reply)
  /\ UNCHANGED <<journal, locking>>

\* heygen_submit_audio_endpoint, for the body and the provider's answer reply
heygen_submit_audio_endpoint(body, reply) ==
  LET r == heygen_submit_audio(body.audio_url, body.avatar_id,
                               reply.net, GenerateData(nextId, reply.hasId))
  IN IF r.raised THEN UNCHANGED engine ELSE HeygenRegister(r.value, body)

\* POST /api/heygen/submit-audio
HeygenSubmitAudioEndpoint ==
  /\ nextId <= MaxJobs
  /\ \E body \in HeygenAudios, reply \in ProviderReplies :
       heygen_submit_audio_endpoint(body, reply)
  /\ UNCHANGED <<journal, locking>>

\* poll_and_notify_heygen, up to the loop
PollHeygenStart(id) ==
  /\ poller[id].pc = "scheduled"
  /\ poller[id].provider = "heygen"
  /\ JOBS' = jobs_upsert(JOBS, id,
               [id |-> id, provider |-> "heygen", status |-> "queued",
                to_email |-> poller[id].job.to_email,
                order_name |-> poller[id].job.order_name], clock)
  /\ poller' = [poller EXCEPT ![id].pc = "loop", ![id].waited = 0]
  /\ UNCHANGED <<journal, locking, env, clock, nextId, sent, resend>>

\* f"error:{e.status_code}"
ErrorStatus(code) ==
  CASE code = "500" -> "error:500"
    [] code = "502" -> "error:502"
    [] OTHER -> "error:401"

heygen_success(status, video_url) ==
  status \in {"completed", "done", "succeeded"} /\ Truthy(video_url)
heygen_failure(status) == status \in {"failed", "error", "canceled"}

\* one iteration of the while loop of poll_and_notify_heygen; the v1 endpoint
\* is asked only when v2 answers without 200
PollHeygen(id) ==
  /\ poller[id].pc = "loop"
  /\ poller[id].provider = "heygen"
  /\ poller[id].waited <= heygen_max_wait_sec
  /\ \E v2 \in NetOutcomes :
     \E v1 \in (IF v2 = "http401" THEN NetOutcomes ELSE {"ok"}) :
       LET e == heygen_status(id, v2, v1, EmptyDict)
           p == [poller[id] EXCEPT !.calls = @ + 1]
       IN IF e.raised
          THEN \* except HTTPException: record it, sleep, continue
               /\ JOBS' = jobs_upsert(JOBS, id,
                            [status |-> ErrorStatus(e.status_code),
                             raw |-> <<"detail", e.detail>>], clock)
               /\ sent' = sent
               /\ poller' = [poller EXCEPT ![id] = Slept(p, heygen_every_sec)]
          ELSE \E native \in HeygenNative, url \in ResultUrls :
                 LET to_email == poller[id].job.to_email
                     s == heygen_status(id, v2, v1,
                                        [status |-> native, video_url |-> url]).value
                     data == Or(Get(s, "data"), s)
                     status == Lower(Or(Or(Get(data, "status"),
                                           Get(data, "task_status")), ""))
                     video_url == Or(Get(Or(Get(data, "video"), EmptyDict), "url"),
                                     Get(data, "video_url"))
                 IN /\ JOBS' = jobs_upsert(JOBS, id,
                                 [status |-> status, video_url |-> video_url,
                                  raw |-> <<"status", native, url>>], clock)
                    /\ IF heygen_success(status, video_url)
                       THEN /\ Notify(id, to_email, "pronto", video_url)
                            /\ poller' = [poller EXCEPT ![id] =
                                            Notified(p, to_email, "ready")]
                       ELSE IF heygen_failure(status)
                       THEN /\ Notify(id, to_email, "problema", None)
                            /\ poller' = [poller EXCEPT ![id] =
                                            Notified(p, to_email, "problem")]
                       ELSE /\ sent' = sent
                            /\ poller' = [poller EXCEPT ![id] =
                                            Slept(p, heygen_every_sec)]
  /\ UNCHANGED <<journal, locking, env, clock, nextId, resend>>

\* the loop of poll_and_notify_heygen ends because waited > max_wait_sec
PollHeygenTimeout(id) ==
  /\ poller[id].pc = "loop"
  /\ poller[id].provider = "heygen"
  /\ poller[id].waited > heygen_max_wait_sec
  /\ Notify(id, poller[id].job.to_email, "in completamento", None)
  /\ poller' = [poller EXCEPT ![id] =
                  Notified(poller[id], poller[id].job.to_email, "timeout")]
  /\ UNCHANGED <<journal, locking, env, JOBS, clock, nextId, resend>>

\* ---------------------------------------------------------- Shopify webhook
\* the loop of shopify_hook over line_items from item i on. acc is what the
\* handler has done so far: the table J, the tasks added to bg, the next free
\* provider id, and whether an HTTPException has left the handler. replies[i]
\* is the provider's answer to the call made for item i.
RECURSIVE hook_items(_, _, _, _, _)
hook_items(items, replies, to_email, i, acc) ==
  IF i > Len(items) \/ acc.raised THEN acc
  ELSE
    LET li == items[i]
        net == replies[i].net
        hasId == replies[i].hasId
        fresh == IF hasId THEN IdSeq[acc.next] ELSE None
        order_name == "#1001"
        skip == hook_items(items, replies, to_email, i + 1, acc)
        fail == [acc EXCEPT !.raised = TRUE]
    IN IF li.tipo = "avatar"
       THEN IF ~Truthy(li.audio_url) /\ ~Truthy(li.script) THEN skip
            ELSE LET r == IF Truthy(li.audio_url)
                          THEN heygen_submit_audio(li.audio_url, None, net,
                                                   GenerateData(acc.next, hasId))
                          ELSE heygen_submit_text(li.script, None, "voice", net,
                                                  GenerateData(acc.next, hasId))
                 IN IF r.raised THEN fail
                    ELSE hook_items(items, replies, to_email, i + 1,
                           [J |-> jobs_upsert(acc.J, r.value,
                                    [id |-> r.value, provider |-> "heygen",
                                     status |-> "submitted", to_email |-> to_email,
                                     order_name |-> order_name], clock),
                            tasks |-> Append(acc.tasks,
                                       [id |-> r.value, provider |-> "heygen",
                                        job |-> [to_email |-> to_email,
                                                 order_name |-> order_name]]),
                            next |-> acc.next + 1, raised |-> FALSE])
       ELSE IF ~Truthy(li.image_url)
               \/ (~Truthy(li.script) /\ ~Truthy(li.audio_url))
               \/ ~Truthy(to_email)
            THEN skip
            ELSE LET job == [image_url |-> li.image_url, script |-> li.script,
                             audio_url |-> li.audio_url, to_email |-> to_email,
                             order_name |-> order_name]
                     r == did_create_talk(job, net, [id |-> fresh])
                     talk_id == Get(r.value, "id")
                 IN IF r.raised THEN fail
                    ELSE IF ~Truthy(talk_id) THEN skip
                    ELSE hook_items(items, replies, to_email, i + 1,
                           [J |-> jobs_upsert(acc.J, talk_id,
                                    [id |-> talk_id, provider |-> "d-id",
                                     status |-> "submitted", to_email |-> to_email,
                                     order_name |-> order_name,
                                     raw |-> <<"talk", talk_id>>], clock),
                            tasks |-> Append(acc.tasks,
                                       [id |-> talk_id, provider |-> "d-id",
                                        job |-> job]),
                            next |-> acc.next + 1, raised |-> FALSE])

\* a line item with the provider's answer to the call made for it; an item
\* the loop skips makes no call
skipped(li) ==
  IF li.tipo = "avatar" THEN ~Truthy(li.audio_url) /\ ~Truthy(li.script)
  ELSE ~Truthy(li.image_url) \/ (~Truthy(li.script) /\ ~Truthy(li.audio_url))
LineItemCalls ==
  {c \in [li : LineItems, reply : ProviderReplies] :
     skipped(c.li) => c.reply = [net |-> "ok", hasId |-> FALSE]}

\* bg.add_task for every task of a handler that returned its response
add_tasks(P, tasks) ==
  [id \in DOMAIN P |->
     IF \E k \in DOMAIN tasks : tasks[k].id = id
     THEN LET k == CHOOSE k \in DOMAIN tasks : tasks[k].id = id
          IN Scheduled(tasks[k].provider, tasks[k].job)
     ELSE P[id]]

\* shopify_hook, for the line items with the provider's answers (calls) and
\* the customer's email. An HTTPException of a provider call leaves the
\* handler: the records written so far stay, and the background tasks, which
\* run after the response of a handler that returned, never start.
shopify_hook(calls, to_email) ==
  LET items == [k \in DOMAIN calls |-> calls[k].li]
      replies == [k \in DOMAIN calls |-> calls[k].reply]
      done == hook_items(items, replies, to_email, 1,
                         [J |-> JOBS, tasks |-> <<>>, next |-> nextId,
                          raised |-> FALSE])
  IN /\ done.next <= MaxJobs + 1
     /\ JOBS' = done.J
     /\ nextId' = done.next
     /\ poller' = IF done.raised THEN poller ELSE add_tasks(poller, done.tasks)
     /\ UNCHANGED <<env, clock, sent, resend>>

\* POST /api/hooks/shopify
ShopifyHook ==
  /\ nextId <= MaxJobs
  /\ \E n \in 1..MaxLineItems :
     \E calls \in [1..n -> LineItemCalls], to_email \in OrderEmails :
       shopify_hook(calls, to_email)
  /\ UNCHANGED <<journal, locking>>

\* -------------------------------------------------------------- admin resend
\* the guards of admin_resend_email on j = JOBS.get(job_id): the HTTPException
\* it raises, or None when it goes on to send
resend_guard(j) ==
  IF DOMAIN j = {} THEN "404 Job not found"
  ELSE IF ~Truthy(Get(j, "to_email")) THEN "400 Job senza email"
  ELSE IF ~Truthy(Get(j, "video_url")) THEN "400 Video non pronto"
  ELSE None

\* the calls of send_email admin_resend_email has made or is about to make
ResendCount ==
  LET n[k \in 0..MaxJobs] ==
        IF k = 0 THEN 0
        ELSE n[k - 1] + Cardinality({i \in DOMAIN sent[IdSeq[k]] :
                                       sent[IdSeq[k]][i].subject = "Video pronto"})
  IN n[MaxJobs] + (IF resend.pc = "send" THEN 1 ELSE 0)

\* admin_resend_email, up to the last guard. j is the live dict of the table,
\* not a copy. A request that raises leaves no trace.
ResendCheck(job_id) ==
  /\ resend.pc = "idle"
  /\ ResendCount < MaxResends
  /\ resend' = IF resend_guard(jobs_get(JOBS, job_id)) = None
               THEN [pc |-> "send", job_id |-> job_id]
               ELSE resend
  /\ UNCHANGED <<journal, locking, env, JOBS, clock, nextId, poller, sent>>

\* admin_resend_email, the rest: video_url = j["video_url"] and send_email
ResendSend ==
  /\ resend.pc = "send"
  /\ LET j == jobs_get(JOBS, resend.job_id)
         video_url == j["video_url"]
     IN sent' = send_email(sent, resend.job_id, j["to_email"], "Video pronto",
                           video_url)
  /\ resend' = [pc |-> "idle", job_id |-> None]
  /\ UNCHANGED <<journal, locking, env, JOBS, clock, nextId, poller>>

\* --------------------------------------------- a client of the submit API
\* One request of a client that only submits; the journal holds the request
\* last made: the handler, the avatar_id of the body and the provider's
\* answer, or the line items with the provider's answers. A request the
\* provider gives no id to is made also when MaxJobs ids have been given. An
\* order of the webhook has one line item here: one submission.
SubmitPhoto ==
  \E reply \in ProviderReplies, job \in Jobs :
    /\ UNCHANGED locking
    /\ nextId <= MaxJobs \/ ~reply.hasId
    /\ create_job_photo(job, reply)
    /\ journal' = <<[handler |-> "photo", avatar_id |-> None, reply |-> reply]>>

SubmitHeygenText ==
  \E body \in HeygenTexts, reply \in ProviderReplies :
    /\ UNCHANGED locking
    /\ nextId <= MaxJobs \/ ~reply.hasId
    /\ heygen_submit_endpoint(body, reply)
    /\ journal' = <<[handler |-> "heygen", avatar_id |-> body.avatar_id,
                     reply |-> reply]>>

SubmitHeygenAudio ==
  \E body \in HeygenAudios, reply \in ProviderReplies :
    /\ UNCHANGED locking
    /\ nextId <= MaxJobs \/ ~reply.hasId
    /\ heygen_submit_audio_endpoint(body, reply)
    /\ journal' = <<[handler |-> "heygen-audio", avatar_id |-> body.avatar_id,
                     reply |-> reply]>>

SubmitShopify ==
  \E calls \in [{1} -> LineItemCalls], to_email \in OrderEmails :
    /\ UNCHANGED locking
    /\ nextId <= MaxJobs \/ ~calls[1].reply.hasId
    /\ shopify_hook(calls, to_email)
    /\ journal' = <<[handler |-> "shopify", calls |-> calls,
                     to_email |-> to_email]>>

\* ------------------------------------------------- a client of the table
\* the keys and the data a client of the table calls _jobs_upsert with
StoreIds == {IdSeq[i] : i \in 1..MaxStoreIds}
StoreKeys == StoreIds \cup {""}
FieldSets == {[status |-> "started", to_email |-> "a@x"],
              [status |-> "done", video_url |-> URL]}

\* one call of _jobs_upsert; the journal keeps the call, the reading of the
\* clock and the status the record had before
StoreUpsert ==
  /\ Len(journal) < MaxUpserts
  /\ \E job_id \in StoreKeys, data \in FieldSets :
       /\ JOBS' = jobs_upsert(JOBS, job_id, data, clock)
       /\ journal' = Append(journal,
                        [job_id |-> job_id, data |-> data, at |-> clock,
                         prior |-> Get(jobs_get(JOBS, job_id), "status")])
  /\ UNCHANGED <<env, clock, nextId, poller, sent, resend, locking>>

\* ------------------------------------------------------------------- time
Tick ==
  /\ clock < MaxClock
  /\ clock' = clock + 1
  /\ UNCHANGED <<journal, locking, env, JOBS, nextId, poller, sent, resend>>

\* ------------------------------------------------------- the specification
\* the configurations examined: every key set while the mail service rejects
\* every message (resend.Emails.send raises), and two in which some keys are
\* missing, so that each key is missing in one of them and the mail of each
\* poller is delivered, skipped or rejected in one of them. The flags say
\* whether the environment variable is set; MAIL_SERVICE_UP is the state of
\* the mail service, which send_email never reports to its caller.
AllSet == [DID_KEY |-> TRUE, HEYGEN_KEY |-> TRUE, HEYGEN_AVATAR |-> TRUE,
           RESEND_KEY |-> TRUE, MAIL_SERVICE_UP |-> TRUE]
Envs == {[AllSet EXCEPT !.MAIL_SERVICE_UP = FALSE],
         [AllSet EXCEPT !.HEYGEN_KEY = FALSE, !.RESEND_KEY = FALSE],
         [AllSet EXCEPT !.DID_KEY = FALSE, !.HEYGEN_AVATAR = FALSE]}

Init ==
  /\ env \in Envs
  /\ JOBS = [id \in JobIds |-> NoJob]
  /\ clock = 0
  /\ nextId = 1
  /\ poller = [id \in JobIds |-> NoPoller]
  /\ sent = [id \in JobIds |-> <<>>]
  /\ resend = [pc |-> "idle", job_id |-> None]
  /\ journal = <<>>
  /\ JOBS_LOCK = None
  /\ thread = [t \in Threads |-> NoThread]

Next ==
  \/ CreateJobPhoto
  \/ HeygenSubmitEndpoint
  \/ HeygenSubmitAudioEndpoint
  \/ ShopifyHook
  \/ \E id \in JobIds : PollDidStart(id)
  \/ \E id \in JobIds : PollDid(id)
  \/ \E id \in JobIds : PollDidTimeout(id)
  \/ \E id \in JobIds : PollHeygenStart(id)
  \/ \E id \in JobIds : PollHeygen(id)
  \/ \E id \in JobIds : PollHeygenTimeout(id)
  \/ \E id \in JobIds : ResendCheck(id)
  \/ ResendSend

\* the engine; the clock stands still
Spec == Init /\ [][Next]_vars

\* the engine with time passing between any two steps
TimedSpec == Init /\ [][Next \/ Tick]_vars

\* the submit handlers used alone
SubmitNext ==
  \/ SubmitPhoto
  \/ SubmitHeygenText
  \/ SubmitHeygenAudio
  \/ SubmitShopify

SubmitSpec == Init /\ [][SubmitNext]_vars

\* the job table used alone, with time passing
StoreInit ==
  /\ env = AllSet
  /\ JOBS = [id \in StoreKeys |-> NoJob]
  /\ clock = 0
  /\ nextId = 1
  /\ poller = [id \in StoreKeys |-> NoPoller]
  /\ sent = [id \in StoreKeys |-> <<>>]
  /\ resend = [pc |-> "idle", job_id |-> None]
  /\ journal = <<>>
  /\ JOBS_LOCK = None
  /\ thread = [t \in Threads |-> NoThread]

StoreNext == StoreUpsert \/ Tick

StoreSpec == StoreInit /\ [][StoreNext]_vars

\* ------------------------------------ the table under concurrent threads
\* Two background tasks poll_and_notify_heygen and a request of
\* admin_job_detail, each a thread of the server, followed statement by
\* statement where the Lock is concerned: a step ends where the thread may
\* have to wait for the Lock, or where it leaves the table for a status call,
\* a sleep or a mail.

\* (a Lock that is never found taken)
locked_never(L) == FALSE
\* Lock.acquire at the entry of "with JOBS_LOCK" blocks while the Lock is taken
locked(L) == L # None
\* (a block whose exit leaves the Lock as it is)
released_missing(L) == L
\* Lock.release at the exit of "with JOBS_LOCK"
released(L) == None

\* the locals of a poller that is about to call _jobs_upsert(video_id, data);
\* ret is the statement it goes on with after the call
Calling(p, data, ret) == [p EXCEPT !.pc = "upsert", !.data = data, !.ret = ret]

\* _jobs_upsert from its entry to base = JOBS.get(job_id, {}): the test of
\* job_id, the acquire, the reading of the clock and the record found. While
\* the thread holds the Lock no other thread changes the dict base names, so
\* the locals keep its contents.
UpsertEnter(t) ==
  /\ thread[t].pc = "upsert"
  /\ IF ~Truthy(thread[t].video_id)
     THEN /\ thread' = [thread EXCEPT ![t].pc = thread[t].ret]
          /\ JOBS_LOCK' = JOBS_LOCK
     ELSE /\ ~locked(JOBS_LOCK)
          /\ JOBS_LOCK' = t
          /\ thread' = [thread EXCEPT ![t].pc = "merge", ![t].at = clock,
                                      ![t].base = jobs_get(JOBS, thread[t].video_id)]
  /\ UNCHANGED <<journal, env, JOBS, clock, nextId, poller, sent, resend>>

\* _jobs_upsert, the rest: update, setdefault, updated_at, JOBS[job_id] = base
\* and the release at the exit of the block
UpsertExit(t) ==
  /\ thread[t].pc = "merge"
  /\ LET id == thread[t].video_id
         found == [JOBS EXCEPT ![id] = IF DOMAIN thread[t].base = {} THEN NoJob
                                       ELSE thread[t].base]
     IN JOBS' = [JOBS EXCEPT ![id] =
                   jobs_upsert(found, id, thread[t].data, thread[t].at)[id]]
  /\ JOBS_LOCK' = released(JOBS_LOCK)
  /\ thread' = [thread EXCEPT ![t].pc = thread[t].ret, ![t].at = 0,
                              ![t].base = EmptyDict]
  /\ UNCHANGED <<journal, env, clock, nextId, poller, sent, resend>>

\* the answers of a status call: the video in the making, the video made, or
\* an HTTPException
StatusReplies == {"processing", "completed", "raised"}

\* heygen_status in the loop of poll_and_notify_heygen, up to the call of
\* _jobs_upsert that follows it
PollerStatus(t) ==
  /\ thread[t].pc = "provider"
  /\ thread[t].waited <= heygen_max_wait_sec
  /\ \E reply \in StatusReplies :
       LET url == IF reply = "completed" THEN URL ELSE None
           e == heygen_status(thread[t].video_id,
                              IF reply = "raised" THEN "unreachable" ELSE "ok",
                              "ok", [status |-> reply, video_url |-> url])
       IN thread' = [thread EXCEPT ![t] =
            IF e.raised
            THEN Calling(@, [status |-> ErrorStatus(e.status_code),
                             raw |-> <<"detail", e.detail>>], "sleep")
            ELSE LET status == Lower(Or(Get(e.value, "status"), ""))
                     video_url == Get(e.value, "video_url")
                 IN Calling(@, [status |-> status, video_url |-> video_url,
                                raw |-> <<"status", reply, url>>],
                            IF heygen_success(status, video_url) THEN "notify"
                            ELSE "sleep")]
  /\ UNCHANGED <<journal, JOBS_LOCK, env, JOBS, clock, nextId, poller, sent, resend>>

\* time.sleep(every_sec); waited += every_sec, and the test of the while
PollerSleep(t) ==
  /\ thread[t].pc = "sleep"
  /\ LET p == Slept(thread[t], heygen_every_sec)
     IN thread' = [thread EXCEPT ![t] =
                     [p EXCEPT !.pc = IF p.waited <= heygen_max_wait_sec
                                      THEN "provider" ELSE "notify"]]
  /\ UNCHANGED <<journal, JOBS_LOCK, env, JOBS, clock, nextId, poller, sent, resend>>

\* send_email and the end of the task: the video is ready, or the loop ran out
PollerNotify(t) ==
  /\ thread[t].pc = "notify"
  /\ sent' = IF thread[t].waited <= heygen_max_wait_sec
             THEN send_email(sent, thread[t].video_id, thread[t].to_email,
                             "pronto", thread[t].data.video_url)
             ELSE send_email(sent, thread[t].video_id, thread[t].to_email,
                             "in completamento", None)
  /\ thread' = [thread EXCEPT ![t].pc = "returned"]
  /\ UNCHANGED <<journal, JOBS_LOCK, env, JOBS, clock, nextId, poller, resend>>

\* admin_job_detail: the acquire at the entry of its block
JobDetailEnter ==
  /\ thread["admin"].pc = "request"
  /\ ~locked(JOBS_LOCK)
  /\ JOBS_LOCK' = "admin"
  /\ thread' = [thread EXCEPT !["admin"].pc = "get"]
  /\ UNCHANGED <<journal, env, JOBS, clock, nextId, poller, sent, resend>>

\* admin_job_detail: j = JOBS.get(job_id), the release, and the response
JobDetailExit ==
  /\ thread["admin"].pc = "get"
  /\ JOBS_LOCK' = released(JOBS_LOCK)
  /\ thread' = [thread EXCEPT !["admin"].pc = "request"]
  /\ UNCHANGED <<journal, env, JOBS, clock, nextId, poller, sent, resend>>

\* a task poll_and_notify_heygen(video_id, to_email, order_name) that has
\* started: it is at its first call of _jobs_upsert
Started(video_id) ==
  [pc |-> "upsert", video_id |-> video_id, to_email |-> "a@x", waited |-> 0,
   data |-> [id |-> video_id, provider |-> "heygen", status |-> "queued",
             to_email |-> "a@x", order_name |-> "#1001"],
   ret |-> "provider", at |-> 0, base |-> EmptyDict]

\* the tasks have started, for the same job or for two jobs
LockInit ==
  /\ env = AllSet
  /\ JOBS = [id \in StoreKeys |-> NoJob]
  /\ clock = 0
  /\ nextId = 1
  /\ poller = [id \in StoreKeys |-> NoPoller]
  /\ sent = [id \in StoreKeys |-> <<>>]
  /\ resend = [pc |-> "idle", job_id |-> None]
  /\ journal = <<>>
  /\ JOBS_LOCK = None
  /\ \E id \in StoreIds :
       thread = [t \in Threads |->
                   IF t = "admin" THEN [pc |-> "request"]
                   ELSE IF t = "p1" THEN Started(IdSeq[1]) ELSE Started(id)]

LockNext ==
  \/ \E t \in Pollers : UpsertEnter(t)
  \/ \E t \in Pollers : UpsertExit(t)
  \/ \E t \in Pollers : PollerStatus(t)
  \/ \E t \in Pollers : PollerSleep(t)
  \/ \E t \in Pollers : PollerNotify(t)
  \/ JobDetailEnter
  \/ JobDetailExit
  \/ Tick

LockSpec == LockInit /\ [][LockNext]_vars

\* ------------------------------------------------------------------ claims
Terminal == {"done", "failed", "timeout"}
Exists(id) == JOBS[id] # NoJob
StatusOf(id) == Get(JOBS[id], "status")
VideoUrlOf(id) == Get(JOBS[id], "video_url")
ToEmailOf(id) == Get(JOBS[id], "to_email")

\* the calls of send_email for a job with one subject
SentWith(id, subject) ==
  Cardinality({i \in DOMAIN sent[id] : sent[id][i].subject = subject})
\* the calls of send_email the poller of a job made (all but the resends)
PollerSent(id) ==
  Cardinality({i \in DOMAIN sent[id] : sent[id][i].subject # "Video pronto"})
ReturnedAt(id, exit) == poller[id].pc = "returned" /\ poller[id].exit = exit

\* C1: once the stored status of a job is done, failed or timeout, no step
\* changes the record's status or video_url.
C1_TerminalStatusFrozen ==
  [][\A id \in JobIds :
       (Exists(id) /\ StatusOf(id) \in Terminal)
         => (StatusOf(id)' = StatusOf(id) /\ VideoUrlOf(id)' = VideoUrlOf(id))]_vars

\* C2: in every state, a record has status done exactly when it has a
\* non-empty video_url.
C2_DoneIffVideoUrl ==
  \A id \in JobIds : Exists(id) => (StatusOf(id) = "done" <=> Truthy(VideoUrlOf(id)))

\* C3: the poller of a job calls the notifier at most once over the job's
\* lifetime; the mails of the admin resend are not counted.
C3_PollerNotifiesAtMostOnce ==
  \A id \in JobIds : PollerSent(id) <= 1

\* C3 witness: a poller has returned after its one notification.
C3_Witness ==
  \E id \in JobIds : poller[id].pc = "returned" /\ PollerSent(id) = 1

\* C4: when the poller ends because the maximum wait elapsed, the record has
\* status timeout and one "still processing" mail was sent for the job.
C4_TimeoutRecorded ==
  \A id \in JobIds :
    ReturnedAt(id, "timeout")
      => /\ StatusOf(id) = "timeout"
         /\ Truthy(ToEmailOf(id)) => SentWith(id, "in completamento") = 1

\* C5: when the poller ends on a terminal failure of the provider, the record
\* has status failed and no video_url, and one failure mail went to to_email.
C5_FailureRecorded ==
  \A id \in JobIds :
    ReturnedAt(id, "problem")
      => /\ StatusOf(id) = "failed"
         /\ ~Truthy(VideoUrlOf(id))
         /\ Truthy(ToEmailOf(id)) => SentWith(id, "problema") = 1

\* C6: when the poller ends on terminal success with a result URL, the record
\* has status done and that URL, and one success mail went to to_email.
C6_SuccessRecorded ==
  \A id \in JobIds :
    ReturnedAt(id, "ready")
      => /\ StatusOf(id) = "done"
         /\ VideoUrlOf(id) = URL
         /\ Truthy(ToEmailOf(id)) => SentWith(id, "pronto") = 1

\* C7: a photo submit with neither script nor audio_url makes no provider
\* call, creates no record and launches no poller: every photo job that has a
\* poller was sent to the provider with the caller's own script or audio_url.
C7_NoInputRejected ==
  \A id \in JobIds :
    (poller[id].pc \in {"scheduled", "loop"} /\ poller[id].provider = "d-id")
      => LET job == poller[id].job
             payload == make_did_payload(job)
         IN /\ Exists(id)
            /\ \/ "audio_url" \in DOMAIN payload /\ Truthy(job.audio_url)
               \/ "script" \in DOMAIN payload /\ payload.script = job.script

\* C8: the admin resend goes on to send only for a job whose stored status is
\* done and that has a recipient and a result URL.
C8_ResendOnlyWhenDone ==
  [][(resend.pc = "idle" /\ resend'.pc = "send")
       => /\ StatusOf(resend'.job_id) = "done"
          /\ Truthy(ToEmailOf(resend'.job_id))
          /\ Truthy(VideoUrlOf(resend'.job_id))]_vars

\* C9: a transport error of a status call (the provider is unreachable) does
\* not end the poller, for either provider.
C9_TransportErrorRetried ==
  \A id \in JobIds : ~(poller[id].pc = "raised" /\ poller[id].exc = "502")

\* C10: after a status call failed with a credential error of the provider
\* (HTTP 401), the poller polls no more and the stored status is failed.
FatalStatusError(id) ==
  \/ poller[id].pc = "raised" /\ poller[id].exc = "401"
  \/ /\ Exists(id)
     /\ "raw" \in DOMAIN JOBS[id]
     /\ JOBS[id]["raw"] = <<"detail", "HeyGen status error">>
C10_FatalErrorNotRetried ==
  \A id \in JobIds :
    FatalStatusError(id) => (poller[id].pc # "loop" /\ StatusOf(id) = "failed")

\* C11: every job a submit has registered has a poller (waiting to start,
\* running or ended), whether or not a recipient was given.
C11_SubmitLaunchesPoller ==
  \A id \in JobIds : Exists(id) => poller[id].pc # "none"

\* C12: a poller makes at most floor(max_wait / every_sec) + 1 status calls:
\* a poller whose loop condition waited <= max_wait still holds, and which so
\* makes another status call, has made fewer than that many; once that many
\* have been made the condition is false.
MaxWait(provider) ==
  IF provider = "d-id" THEN did_max_wait_sec ELSE heygen_max_wait_sec
MaxStatusCalls(provider) ==
  IF provider = "d-id" THEN (did_max_wait_sec \div did_every_sec) + 1
  ELSE (heygen_max_wait_sec \div heygen_every_sec) + 1
InLoop(id) == poller[id].pc = "loop"
C12_PollerTerminates ==
  \A id \in JobIds :
    InLoop(id) =>
      /\ poller[id].calls <= MaxStatusCalls(poller[id].provider)
      /\ poller[id].waited <= MaxWait(poller[id].provider)
           => poller[id].calls + 1 <= MaxStatusCalls(poller[id].provider)

\* C12 witness: a poller has made all the status calls it may make without a
\* terminal answer, and is about to leave the loop.
C12_Witness ==
  \E id \in JobIds :
    InLoop(id) /\ poller[id].calls = MaxStatusCalls(poller[id].provider)

\* C15: every status stored in a record is queued, submitted, a provider's
\* in-progress word, done, failed or timeout.
Normalized == {"queued", "submitted", "started", "processing",
               "done", "failed", "timeout"}
C15_StatusNormalized ==
  \A id \in JobIds : Exists(id) => StatusOf(id) \in Normalized

\* C17: when the mail service rejects the poller's mail, the poller still
\* ends with a return, and from then on the job's stored status does not
\* change and the job is not polled again.
MailFailed(id) ==
  \E i \in DOMAIN sent[id] :
    sent[id][i].outcome = "error" /\ sent[id][i].subject # "Video pronto"
C17_NotifierFailureAbsorbed ==
  [][\A id \in JobIds :
       /\ MailFailed(id)' => poller'[id].pc = "returned"
       /\ MailFailed(id) => /\ StatusOf(id)' = StatusOf(id)
                             /\ poller'[id] = poller[id]]_vars

\* C17 witness: the success mail of a poller has been rejected and the poller
\* has returned.
C17_Witness ==
  \E id \in JobIds : MailFailed(id) /\ ReturnedAt(id, "ready")

\* C19: no step takes the stored status of a job from submitted to queued.
C19_NoSubmittedToQueued ==
  [][\A id \in JobIds :
       StatusOf(id) = "submitted" => StatusOf(id)' # "queued"]_vars

\* C20: the record admin_resend_email got from the table keeps the contents it
\* had when the request read it: the mail it sends carries the non-empty
\* video_url its guard saw.
C20_ReaderHoldsSnapshot ==
  \A id \in JobIds : \A i \in DOMAIN sent[id] :
    sent[id][i].subject = "Video pronto" => Truthy(sent[id][i].url)

\* ---------------------------------------------- claims about the submit API
\* the provider call of a submission cannot succeed: the provider is
\* unreachable or rejects the request, or the credential or the avatar id is
\* missing
CallFault(provider, avatar_id, reply) ==
  \/ reply.net # "ok"
  \/ provider = "d-id" /\ ~env.DID_KEY
  \/ provider = "heygen" /\ ~env.HEYGEN_KEY
  \/ provider = "heygen" /\ ~Truthy(avatar_id) /\ ~env.HEYGEN_AVATAR
\* the webhook makes a provider call for the line item li
CallMade(li, to_email) ==
  IF li.tipo = "avatar" THEN Truthy(li.audio_url) \/ Truthy(li.script)
  ELSE /\ Truthy(li.image_url)
       /\ Truthy(li.script) \/ Truthy(li.audio_url)
       /\ Truthy(to_email)
\* the request e of the journal fails at its (first) provider call
SubmitFailed(e) ==
  IF e.handler = "shopify"
  THEN \E f \in DOMAIN e.calls :
         /\ CallMade(e.calls[f].li, e.to_email)
         /\ CallFault(IF e.calls[f].li.tipo = "avatar" THEN "heygen" ELSE "d-id",
                      None, e.calls[f].reply)
         /\ \A k \in DOMAIN e.calls : k < f => ~CallMade(e.calls[k].li, e.to_email)
  ELSE CallFault(IF e.handler = "photo" THEN "d-id" ELSE "heygen",
                 e.avatar_id, e.reply)

\* C14: a request whose submission fails at the provider call changes neither
\* the job table nor the pollers: no record is created and no poller is
\* launched for it.
C14_SubmitFailureLeavesNoTrace ==
  [][(journal' # <<>> /\ SubmitFailed(journal'[1]))
       => (JOBS' = JOBS /\ poller' = poller /\ nextId' = nextId)]_vars

\* C14 witness: a request has failed after another had registered a job,
\* whose record and poller are as the submit left them.
C14_Witness ==
  /\ journal # <<>>
  /\ SubmitFailed(journal[1])
  /\ \E id \in JobIds :
       /\ Exists(id)
       /\ StatusOf(id) = "submitted"
       /\ poller[id].pc = "scheduled"

\* ------------------------------------------------ claims about the job table
\* calls i and j of the journal are the last two upserts of the record of id
LastTwoUpserts(id, i, j) ==
  /\ i < j
  /\ journal[i].job_id = id
  /\ journal[j].job_id = id
  /\ \A k \in DOMAIN journal : (k > i /\ k # j) => journal[k].job_id # id
\* the reading of the clock at the last upsert of the record of id
LastUpsertAt(id) ==
  LET ks == {k \in DOMAIN journal : journal[k].job_id = id}
  IN journal[CHOOSE k \in ks : \A m \in ks : m <= k].at

\* C13: after upsert(id, f1) and then upsert(id, f2) on a record whose status
\* before was not terminal, get(id) has every field of f2 with the value of
\* f2 and every other field of f1 with the value of f1.
C13_UpsertMerges ==
  \A id \in StoreIds : \A i, j \in DOMAIN journal :
    (LastTwoUpserts(id, i, j) /\ journal[i].prior \notin Terminal)
      => LET f1 == journal[i].data
             f2 == journal[j].data
             r == jobs_get(JOBS, id)
         IN /\ \A k \in DOMAIN f2 : k \in DOMAIN r /\ r[k] = f2[k]
            /\ \A k \in DOMAIN f1 \ DOMAIN f2 : k \in DOMAIN r /\ r[k] = f1[k]

\* C13 witness: two upserts of one record with different fields have been
\* made, the record's status before them not being terminal.
C13_Witness ==
  \E id \in StoreIds : \E i, j \in DOMAIN journal :
    /\ LastTwoUpserts(id, i, j)
    /\ journal[i].prior \notin Terminal
    /\ DOMAIN journal[i].data \ DOMAIN journal[j].data # {}
    /\ journal[i].data["status"] # journal[j].data["status"]

\* C16: in every list _jobs_list can return, a record whose last upsert was
\* made at a later reading of the clock comes before a record whose last
\* upsert was made earlier.
C16_ListNewestFirst ==
  \A l \in jobs_list(JOBS) : \A a, b \in DOMAIN l :
    LastUpsertAt(l[a]) > LastUpsertAt(l[b]) => a < b

\* C18: an upsert with the empty job id changes nothing in the table: no
\* record is created and every record, its updated_at included, stays as it
\* was.
C18_EmptyIdNoOp ==
  [][(Len(journal') = Len(journal) + 1 /\ journal'[Len(journal')].job_id = "")
       => JOBS' = JOBS]_vars

\* C18 witness: an upsert with the empty id has been made after an upsert of
\* a record, at a later reading of the clock.
C18_Witness ==
  /\ Len(journal) >= 2
  /\ journal[Len(journal)].job_id = ""
  /\ \E id \in StoreIds :
       JOBS[id] # NoJob /\ LastUpsertAt(id) < journal[Len(journal)].at

\* the instant a stored timestamp names, in ticks of the clock: the text of
\* isoformat read back, the fraction being zero when it is left out
Instant(s) ==
  LET n(c) == CHOOSE k \in 0..9 : Digit(k) = c
  IN IF Len(s) = 2 THEN n(s[1]) * TicksPerSecond
     ELSE n(s[1]) * TicksPerSecond + n(s[3])
\* the last call of the journal is an upsert of the record of id
UpsertOf(id) == journal # <<>> /\ journal[Len(journal)].job_id = id

\* C22: an upsert of a record stamps updated_at with the reading of the clock
\* and leaves created_at as it was, stamping it only when the record is new;
\* the instant of created_at is never after the instant of updated_at.
C22_CreatedAtFixed ==
  [][\A id \in StoreIds :
       (Len(journal') = Len(journal) + 1 /\ UpsertOf(id)')
         => /\ JOBS'[id]["updated_at"] = isoformat(clock)
            /\ JOBS'[id]["created_at"] =
                 IF JOBS[id] = NoJob THEN isoformat(clock)
                 ELSE JOBS[id]["created_at"]
            /\ Instant(JOBS'[id]["created_at"])
                 <= Instant(JOBS'[id]["updated_at"])]_vars

\* C22 witness: a record has been upserted again at a later reading of the
\* clock than the one it was created at.
C22_Witness ==
  \E id \in StoreIds :
    /\ UpsertOf(id)
    /\ JOBS[id] # NoJob
    /\ Instant(JOBS[id]["created_at"]) < Instant(JOBS[id]["updated_at"])
    /\ Cardinality({k \in DOMAIN journal : journal[k].job_id = id}) >= 2

\* ------------------------------------------- claims about the admin resend
\* C25: the step in which admin_resend_email sends its mail puts a non-empty
\* video_url in it, whatever the poller of the job has written since the
\* guards of the request.
C25_ResendCarriesCheckedUrl ==
  [][(resend.pc = "send" /\ resend'.pc = "idle")
       => LET m == sent'[resend.job_id]
          IN Len(m) = Len(sent[resend.job_id]) + 1 /\ Truthy(m[Len(m)].url)]_vars

Outside(t) == thread[t].pc \in {"provider", "sleep", "notify"}
\* the threads t and u are in _jobs_upsert for the same record at once
Concurrent(t, u) ==
  /\ t # u
  /\ thread[t].video_id = thread[u].video_id
  /\ thread[t].pc = "merge"
  /\ thread[u].pc = "upsert"

\* C21: whatever other upserts are under way, an upsert that completes
\* leaves the table as _jobs_upsert applied to the table the upserts
\* completed before it left: the upserts of a record take effect one after
\* another, and created_at is stamped by the first of them only.
C21_UpsertsSerialized ==
  [][\A t \in Pollers :
       (thread[t].pc = "merge" /\ thread'[t].pc # "merge")
         => LET id == thread[t].video_id
            IN /\ JOBS' = jobs_upsert(JOBS, id, thread[t].data, thread[t].at)
               /\ JOBS'[id]["created_at"] =
                    IF JOBS[id] = NoJob THEN isoformat(thread[t].at)
                    ELSE JOBS[id]["created_at"]]_vars

\* C21 witness: two threads are in _jobs_upsert for the same record at once,
\* one holding the Lock and one at the acquire, the record holding a field
\* written by an upsert completed before.
C21_Witness ==
  \E t, u \in Pollers :
    /\ Concurrent(t, u)
    /\ JOBS[thread[t].video_id] # NoJob
    /\ thread[t].data.status # thread[u].data.status

\* C23: a thread that is in a status call, asleep or in send_email does not
\* hold the Lock; the thread that holds it is inside _jobs_upsert or the
\* read of a request, a step from its release.
C23_NoLockHeldOutside ==
  /\ \A t \in Pollers : Outside(t) => JOBS_LOCK # t
  /\ JOBS_LOCK # None => thread[JOBS_LOCK].pc \in {"merge", "get"}

\* C23 witness: a poller is asleep and another in a status call while the
\* request of the admin holds the Lock for its read.
C23_Witness ==
  /\ JOBS_LOCK = "admin"
  /\ \E t, u \in Pollers : thread[t].pc = "sleep" /\ thread[u].pc = "provider"
====
